---- MODULE Spec2Model ----
(***************************************************************************)
(* Model of commity's diff-to-prompt budgeting pipeline                    *)
(* (commity/utils/prompt_organizer.py).                                    *)
(*                                                                         *)
(* A text is a sequence of Unicode code points (what Python's len, slicing *)
(* and ord see), so that prefixes, slices, lengths and decimal formatting  *)
(* are computed as the code computes them.                                 *)
(***************************************************************************)
EXTENDS Integers, Sequences, FiniteSets, TLC

VARIABLES
    diff_text,          \* argument diff_text
    max_output_tokens,  \* argument max_output_tokens
    model_name,         \* argument model_name
    provider,           \* argument provider
    max_lines,          \* argument max_lines of compress_diff_to_bullets
    pc,                 \* position of the call
    compressed,         \* local compressed_prompt of summary_and_tokens_checker
    outcome,            \* "pending", "returned" or "raised"
    result,             \* the value returned
    return_path,        \* the return statement the call ended at
    chars_per_token,    \* local chars_per_token (line 121), in tenths; 0 before it is set
    config,             \* cli.main: the resolved configuration
    file_path,          \* calculate_file_importance: argument file_path
    added_lines,        \* calculate_file_importance: argument added_lines
    removed_lines,      \* calculate_file_importance: argument removed_lines
    score,              \* calculate_file_importance: the value returned
    encoding_cache,     \* token estimator: the cached handles by model name, least recently used first
    estimate_calls,     \* token estimator: the model names of the calls so far, in order
    handles_built,      \* token estimator: the number of handles constructed so far
    commit_msg,         \* clean_thinking_process: argument commit_msg; cli.main: local commit_msg
    cleaned,            \* clean_thinking_process: the value returned
    cleaned_again,      \* clean_thinking_process: the value returned for the argument cleaned
    args,               \* cli.main: the parsed arguments show_config and confirm
    response,           \* cli.main: what the language model answers in this run
    confirm_input,      \* cli.main: local confirm_input, "" before the prompt
    events,             \* cli.main: what the run has done so far, in order
    displayed,          \* cli.main: the message shown for review
    committed           \* cli.main: the message passed to git commit -m

vars == <<diff_text, max_output_tokens, model_name, provider, max_lines,
          pc, compressed, outcome, result, return_path, chars_per_token,
          config, file_path, added_lines, removed_lines, score,
          encoding_cache, estimate_calls, handles_built,
          commit_msg, cleaned, cleaned_again,
          args, response, confirm_input, events, displayed, committed>>

---------------------------------------------------------------------------
(* Program constants                                                       *)

MAX_DIFF_LENGTH == 15000
MAX_FILES_IN_SUMMARY == 30
MAX_COMPRESSED_LINES == 1000
\* "保留至少 100 字符": the truncation branch keeps more than 100 characters
MIN_KEEP_CHARS == 100
\* 0x4E00 and 0x9FFF: the range counted as CJK
CJK_FIRST == 19968
CJK_LAST == 40959

---------------------------------------------------------------------------
(* String literals of the source, as code points                           *)

NL == 10
SPACE == 32
PLUS == 43
MINUS == 45

\* "⚠️ Diff too long ("  (18 code points)
WARN_PREFIX == <<9888, 65039, 32, 68, 105, 102, 102, 32, 116, 111, 111, 32, 108, 111, 110, 103, 32, 40>>
\* " characters), it is recommended to submit in batches or simplify changes。"  (73 code points)
WARN_SUFFIX == <<32, 99, 104, 97, 114, 97, 99, 116, 101, 114, 115, 41, 44, 32, 105, 116, 32, 105, 115, 32, 114, 101, 99, 111, 109, 109, 101, 110, 100, 101, 100, 32, 116, 111, 32, 115, 117, 98, 109, 105, 116, 32, 105, 110, 32, 98, 97, 116, 99, 104, 101, 115, 32, 111, 114, 32, 115, 105, 109, 112, 108, 105, 102, 121, 32, 99, 104, 97, 110, 103, 101, 115, 12290>>
\* "📝 Change Summary：\n"  (18 code points)
SUMMARY_TITLE == <<128221, 32, 67, 104, 97, 110, 103, 101, 32, 83, 117, 109, 109, 97, 114, 121, 65306, 10>>
\* "- Change File："  (14 code points)
CHANGE_FILE == <<45, 32, 67, 104, 97, 110, 103, 101, 32, 70, 105, 108, 101, 65306>>
\* "- Add："  (6 code points)
ADD_PREFIX == <<45, 32, 65, 100, 100, 65306>>
\* "- Delete："  (9 code points)
DELETE_PREFIX == <<45, 32, 68, 101, 108, 101, 116, 101, 65306>>
\* "...<truncated>"  (14 code points)
TRUNCATED_LINE == <<46, 46, 46, 60, 116, 114, 117, 110, 99, 97, 116, 101, 100, 62>>
\* "\n\n🔍 Change details (compressed version)：\n"  (41 code points)
DETAILS_HEADER == <<10, 10, 128269, 32, 67, 104, 97, 110, 103, 101, 32, 100, 101, 116, 97, 105, 108, 115, 32, 40, 99, 111, 109, 112, 114, 101, 115, 115, 101, 100, 32, 118, 101, 114, 115, 105, 111, 110, 41, 65306, 10>>
\* "\n\n...<truncated "  (16 code points)
TRUNC_OPEN == <<10, 10, 46, 46, 46, 60, 116, 114, 117, 110, 99, 97, 116, 101, 100, 32>>
\* " chars>...\n\n"  (12 code points)
TRUNC_CLOSE == <<32, 99, 104, 97, 114, 115, 62, 46, 46, 46, 10, 10>>
\* "diff --git a/"  (13 code points): the literal part of r"diff --git a/(.+?) "
DIFF_GIT_A == <<100, 105, 102, 102, 32, 45, 45, 103, 105, 116, 32, 97, 47>>

---------------------------------------------------------------------------
(* Python string primitives                                                *)

\* str.splitlines() line boundaries (a "\r\n" pair is outside the inputs' alphabet)
LineBreaks == {10, 11, 12, 13, 28, 29, 30, 133, 8232, 8233}

\* str.strip() whitespace
Whitespace == {9, 10, 11, 12, 13, 28, 29, 30, 31, 32, 133, 160, 5760, 8232, 8233, 8239, 8287, 12288} \cup (8192..8202)

\* s.startswith(p)
startswith(s, p) == Len(s) >= Len(p) /\ SubSeq(s, 1, Len(p)) = p

\* s[i:] with 0 <= i (Python slice, 0-based start)
SliceFrom(s, i) == SubSeq(s, i + 1, Len(s))

\* s[:n] with 0 <= n
SliceTo(s, n) == SubSeq(s, 1, IF n < Len(s) THEN n ELSE Len(s))

\* s[-n:] with n >= 0; note that s[-0:] is s[0:], the whole string
SliceLast(s, n) == IF n = 0 \/ n >= Len(s) THEN s ELSE SubSeq(s, Len(s) - n + 1, Len(s))

\* sub in s
Contains(s, sub) == \E i \in 0..(Len(s) - Len(sub)) : SubSeq(s, i + 1, i + Len(sub)) = sub

\* least index j >= from with s[j] in cs, or Len(s)+1 when there is none
FirstIndexIn(s, from, cs) ==
    IF \E j \in from..Len(s) : s[j] \in cs
    THEN CHOOSE j \in from..Len(s) : s[j] \in cs /\ \A k \in from..(j - 1) : s[k] \notin cs
    ELSE Len(s) + 1

\* least index j >= 1 with s[j] not in cs, or Len(s)+1 when there is none
FirstIndexNotIn(s, cs) ==
    IF \E j \in 1..Len(s) : s[j] \notin cs
    THEN CHOOSE j \in 1..Len(s) : s[j] \notin cs /\ \A k \in 1..(j - 1) : s[k] \in cs
    ELSE Len(s) + 1

\* greatest index j <= Len(s) with s[j] not in cs, or 0 when there is none
LastIndexNotIn(s, cs) ==
    IF \E j \in 1..Len(s) : s[j] \notin cs
    THEN CHOOSE j \in 1..Len(s) : s[j] \notin cs /\ \A k \in (j + 1)..Len(s) : s[k] \in cs
    ELSE 0

\* s.strip()
strip(s) == SubSeq(s, FirstIndexNotIn(s, Whitespace), LastIndexNotIn(s, Whitespace))

RECURSIVE SplitFrom(_, _)
SplitFrom(s, i) ==
    IF i > Len(s) THEN <<>>
    ELSE LET e == FirstIndexIn(s, i, LineBreaks)
         IN  <<SubSeq(s, i, e - 1)>> \o SplitFrom(s, e + 1)

\* s.splitlines()
splitlines(s) == SplitFrom(s, 1)

RECURSIVE JoinFrom(_, _, _)
JoinFrom(sep, parts, i) ==
    IF i > Len(parts) THEN <<>>
    ELSE IF i = Len(parts) THEN parts[i]
    ELSE parts[i] \o sep \o JoinFrom(sep, parts, i + 1)

\* sep.join(parts)
join(sep, parts) == JoinFrom(sep, parts, 1)

RECURSIVE str_int(_)
\* str(n) for n >= 0, as used by the f-strings
str_int(n) == IF n < 10 THEN <<48 + n>> ELSE str_int(n \div 10) \o <<48 + (n % 10)>>


---------------------------------------------------------------------------
(* Token estimator: commity/utils/token_counter.py is not part of the      *)
(* sources at hand.  It is modelled from section 4.1 of the specification: *)
(* the model name selects a tokenization scheme, an unknown model name     *)
(* falls back to the default scheme, the count is a deterministic function *)
(* of the text and the scheme, and the empty text counts zero.  A scheme   *)
(* is abstracted by the number of characters one token covers.             *)

\* the capacity of the cache of handles
CacheCapacity == 2

MODEL_TO_ENCODING == [m \in {"gpt-4", "gpt-3.5-turbo"} |-> IF m = "gpt-4" THEN "cl100k_base" ELSE "p50k_base"]

DEFAULT_ENCODING == "cl100k_base"

ENCODING_CHARS_PER_TOKEN == [e \in {"cl100k_base", "p50k_base"} |-> IF e = "cl100k_base" THEN 4 ELSE 3]

\* lookup of the scheme of a model; "KeyError" for a model it does not know
encoding_for_model(m) == IF m \in DOMAIN MODEL_TO_ENCODING THEN MODEL_TO_ENCODING[m] ELSE "KeyError"

\* plausible defect: no fallback for an unknown model name
get_encoding_no_fallback(m) == encoding_for_model(m)

\* the scheme used for a model name: unknown names use the default scheme
get_encoding(m) == IF encoding_for_model(m) = "KeyError" THEN DEFAULT_ENCODING ELSE encoding_for_model(m)

\* TRUE when estimating for model m raises
count_tokens_raises(m) == get_encoding(m) \notin DOMAIN ENCODING_CHARS_PER_TOKEN

CeilDiv(a, b) == (a + b - 1) \div b

\* count_tokens(text, model_name, provider)
count_tokens(text, m, p) ==
    IF count_tokens_raises(m) THEN 0
    ELSE CeilDiv(Len(text), ENCODING_CHARS_PER_TOKEN[get_encoding(m)])

\* The cache of handles, from sections 4.1 and 9: a bounded map from model
\* name to handle with least-recently-used eviction.  It is a sequence of
\* model names, the least recently used one first.

Range(s) == {s[i] : i \in 1..Len(s)}

\* a call for model m constructs a handle when none is cached for m
builds_handle(cache, m) == m \notin Range(cache)

\* plausible defect: a hit does not make the handle the most recently used
lru_cache_after_fifo(cache, m) ==
    IF m \in Range(cache) THEN cache
    ELSE Append(IF Len(cache) < CacheCapacity THEN cache ELSE Tail(cache), m)

\* the cache after a call for model m: m is the most recently used entry;
\* a new entry in a full cache takes the place of the least recently used
lru_cache_after(cache, m) ==
    Append(IF m \in Range(cache) THEN SelectSeq(cache, LAMBDA x : x # m)
           ELSE IF Len(cache) < CacheCapacity THEN cache
           ELSE Tail(cache), m)

---------------------------------------------------------------------------
(* prompt_organizer.py                                                     *)

\* plausible defect: ">=" for ">" in the threshold test
check_diff_length_inclusive(d) ==
    IF Len(d) >= MAX_DIFF_LENGTH THEN WARN_PREFIX \o str_int(Len(d)) \o WARN_SUFFIX ELSE <<>>

\* check_diff_length(diff_text)[1]: the warning message, "" under the threshold
check_diff_length(d) ==
    IF Len(d) > MAX_DIFF_LENGTH THEN WARN_PREFIX \o str_int(Len(d)) \o WARN_SUFFIX ELSE <<>>

\* r"diff --git a/(.+?) " matches at index i of s (1-based): the literal, then a
\* shortest non-empty run of non-newline characters, then a space
HeaderAt(s, i) ==
    /\ i + Len(DIFF_GIT_A) <= Len(s)
    /\ s[i] = DIFF_GIT_A[1]
    /\ SubSeq(s, i, i + Len(DIFF_GIT_A) - 1) = DIFF_GIT_A
    /\ s[i + Len(DIFF_GIT_A)] # NL
    /\ FirstIndexIn(s, i + Len(DIFF_GIT_A) + 1, {SPACE}) < FirstIndexIn(s, i + Len(DIFF_GIT_A), {NL})

\* index of the space that ends the match starting at i
HeaderEnd(s, i) == FirstIndexIn(s, i + Len(DIFF_GIT_A) + 1, {SPACE})

RECURSIVE FindallFrom(_, _)
FindallFrom(s, pos) ==
    IF \E i \in pos..Len(s) : HeaderAt(s, i)
    THEN LET i == CHOOSE i \in pos..Len(s) : HeaderAt(s, i) /\ \A k \in pos..(i - 1) : ~HeaderAt(s, k)
         IN  <<SubSeq(s, i + Len(DIFF_GIT_A), HeaderEnd(s, i) - 1)>> \o FindallFrom(s, HeaderEnd(s, i) + 1)
    ELSE <<>>

\* re.findall(r"diff --git a/(.+?) ", diff_text)
findall_files(d) == FindallFrom(d, 1)

\* generate_prompt_summary(diff_text)
generate_prompt_summary(d) ==
    LET files == findall_files(d)
        shown == SubSeq(files, 1, IF Len(files) < MAX_FILES_IN_SUMMARY THEN Len(files) ELSE MAX_FILES_IN_SUMMARY)
        summary == [k \in 1..Len(shown) |-> CHANGE_FILE \o shown[k]]
    IN  SUMMARY_TITLE \o join(<<NL>>, summary)

\* plausible defect: ">" for ">=" in the cap test
cap_reached_off_by_one(n, maxl) == n > maxl

\* len(compressed) >= max_lines
cap_reached(n, maxl) == n >= maxl

\* line.startswith("+") and not line.startswith("+++")
is_added(line) == startswith(line, <<PLUS>>) /\ ~startswith(line, <<PLUS, PLUS, PLUS>>)

\* line.startswith("-") and not line.startswith("---")
is_removed(line) == startswith(line, <<MINUS>>) /\ ~startswith(line, <<MINUS, MINUS, MINUS>>)

\* the bullets one diff line contributes (zero or one)
bullet_of(line) ==
    IF is_added(line) THEN <<ADD_PREFIX \o strip(SliceFrom(line, 1))>>
    ELSE IF is_removed(line) THEN <<DELETE_PREFIX \o strip(SliceFrom(line, 1))>>
    ELSE <<>>

RECURSIVE bullets_loop(_, _, _, _)
\* the for loop of compress_diff_to_bullets, from line i on
bullets_loop(lines, i, acc, maxl) ==
    IF i > Len(lines) THEN acc
    ELSE LET c1 == acc \o bullet_of(lines[i])
         IN  IF cap_reached(Len(c1), maxl)
             THEN Append(c1, TRUNCATED_LINE)
             ELSE bullets_loop(lines, i + 1, c1, maxl)

\* the list "compressed" at the end of compress_diff_to_bullets
compressed_lines(d, maxl) == bullets_loop(splitlines(d), 1, <<>>, maxl)

\* compress_diff_to_bullets(diff_text, max_lines)
compress_diff_to_bullets(d, maxl) == join(<<NL>>, compressed_lines(d, maxl))

\* ord(char) >= 0x4E00 and ord(char) <= 0x9FFF
is_cjk(c) == c >= CJK_FIRST /\ c <= CJK_LAST

\* plausible defect: a share of exactly 30% counts as primarily CJK
cjk_majority_inclusive(text) ==
    /\ Len(text) > 0
    /\ 10 * Cardinality({i \in 1..Len(text) : is_cjk(text[i])}) >= 3 * Len(text)

\* cjk_ratio > 0.3, where cjk_ratio = cjk_count / len(text) if len(text) > 0 else 0.
\* For counts below 10^15 the double quotient exceeds the double 0.3 exactly
\* when 10 * cjk_count > 3 * len(text).
cjk_majority(text) ==
    /\ Len(text) > 0
    /\ 10 * Cardinality({i \in 1..Len(text) : is_cjk(text[i])}) > 3 * Len(text)

\* plausible defect: a provider outside the table is given the gemini rule
ratio_default_by_text(text, p) ==
    IF p \in {"openai", "openrouter"} THEN (IF cjk_majority(text) THEN 25 ELSE 40)
    ELSE (IF cjk_majority(text) THEN 20 ELSE 35)

\* _get_chars_per_token_ratio(text, provider), in tenths of a character per
\* token (20 is 2.0, 25 is 2.5, 35 is 3.5, 40 is 4.0)
_get_chars_per_token_ratio(text, p) ==
    IF p = "gemini" THEN (IF cjk_majority(text) THEN 20 ELSE 35)
    ELSE IF p \in {"openai", "openrouter"} THEN (IF cjk_majority(text) THEN 25 ELSE 40)
    ELSE 35

RECURSIVE Pow2Floor(_)
\* the greatest power of two <= k, for k >= 1
Pow2Floor(k) == IF k < 2 THEN 1 ELSE 2 * Pow2Floor(k \div 2)

\* int(n * 0.7) in IEEE-754 double arithmetic, n >= 0.  The double 0.7 is
\* 0.7 - 0.4 * 2^-53, so the exact product is below 7n/10 by n * 0.4 * 2^-53.
\* That matters only when 7n/10 is an integer k = 7j (n = 10j): the product
\* rounds to the double below k, and int() gives k - 1, exactly when the
\* deficit j * 2^-51 exceeds half the spacing of doubles below k, that is
\* when 4j > 2^floor(log2 k)  (n = 90, 170, 180, 330, ...).
int_times_0_7(n) ==
    IF n > 0 /\ n % 10 = 0 /\ 4 * (n \div 10) > Pow2Floor(7 * (n \div 10))
    THEN (7 * n) \div 10 - 1
    ELSE (7 * n) \div 10

\* int(n * 0.1) in IEEE-754 double arithmetic, n >= 0: the double 0.1 is
\* above 1/10 by less than 2^-58, so the product never falls below an
\* integer it should reach and int() gives floor(n / 10)
int_times_0_1(n) == n \div 10

\* plausible defect: "<" for "<=" in the budget tests
fits_budget_strict(tokens, b) == tokens < b

\* plausible defect: the comparison of the budget tests is turned round
fits_budget_reversed(tokens, b) == tokens >= b

\* token_count <= max_output_tokens
fits_budget(tokens, b) == tokens <= b

\* plausible defect: the compressed diff alone, without summary and header
compressed_prompt_bullets_only(d) == compress_diff_to_bullets(d, MAX_COMPRESSED_LINES)

\* f"{warning_msg}\n{prompt_summary}\n\n🔍 Change details (compressed version)：\n{compressed_diff}"
compressed_prompt(d) ==
    check_diff_length(d) \o <<NL>> \o generate_prompt_summary(d)
        \o DETAILS_HEADER \o compress_diff_to_bullets(d, MAX_COMPRESSED_LINES)

\* excess_tokens = compressed_token_count - max_output_tokens, for the
\* compressed prompt cp
excess_tokens(cp, b, m, p) == count_tokens(cp, m, p) - b

\* chars_to_remove = int(excess_tokens * chars_per_token); the ratios are
\* multiples of 0.5, so the double product is exact
chars_to_remove(cp, b, m, p) ==
    (excess_tokens(cp, b, m, p) * _get_chars_per_token_ratio(cp, p)) \div 10

\* plausible defect: the 100-character floor is dropped from the test
can_truncate_no_floor(len, c) == len > c

\* len(compressed_prompt) > chars_to_remove + 100
can_truncate(len, c) == len > c + MIN_KEEP_CHARS

\* keep_start = int((len(compressed_prompt) - chars_to_remove) * 0.7)
keep_start(len, c) == int_times_0_7(len - c)

\* keep_end = int((len(compressed_prompt) - chars_to_remove) * 0.1)
keep_end(len, c) == int_times_0_1(len - c)

\* f"\n\n...<truncated {chars_to_remove} chars>...\n\n"
truncation_marker(c) == TRUNC_OPEN \o str_int(c) \o TRUNC_CLOSE

\* truncated_prompt, from the compressed prompt cp and chars_to_remove c
truncated_prompt(cp, c) ==
    SliceTo(cp, keep_start(Len(cp), c)) \o truncation_marker(c) \o SliceLast(cp, keep_end(Len(cp), c))

---------------------------------------------------------------------------
(* Inputs                                                                  *)

\* the longest diff drawn, in lines
MaxDiffLines == 2
\* the largest token budget drawn
MaxBudget == 45
\* the largest max_lines drawn for Tier 1 line compression
MaxLinesCap == 3
\* the longest diff drawn for Tier 1 line compression, in lines
MaxTier1Lines == 3
\* length of the bulk context line and of the bulk added line
BulkLen == 100

\* "a.py"
PATH_SHORT == <<97, 46, 112, 121>>
\* "src/commity/utils/prompt_organizer_helpers.py"  (45 code points)
PATH_LONG == <<115, 114, 99, 47, 99, 111, 109, 109, 105, 116, 121, 47, 117, 116, 105, 108, 115, 47, 112, 114, 111, 109, 112, 116, 95, 111, 114, 103, 97, 110, 105, 122, 101, 114, 95, 104, 101, 108, 112, 101, 114, 115, 46, 112, 121>>
\* "my file.py"
PATH_SPACE == <<109, 121, 32, 102, 105, 108, 101, 46, 112, 121>>

Paths == {PATH_SHORT, PATH_LONG, PATH_SPACE}

\* "config.yaml"
PATH_CONFIG_YAML == <<99, 111, 110, 102, 105, 103, 46, 121, 97, 109, 108>>

\* "diff --git a/<path> b/<path>"
HeaderLine(path) == DIFF_GIT_A \o path \o <<SPACE, 98, 47>> \o path

\* "--- a/a.py"
OLD_FILE == <<45, 45, 45, 32, 97, 47, 97, 46, 112, 121>>
\* "+++ b/a.py"
NEW_FILE == <<43, 43, 43, 32, 98, 47, 97, 46, 112, 121>>
\* "@@ -1,3 +1,4 @@"
HUNK == <<64, 64, 32, 45, 49, 44, 51, 32, 43, 49, 44, 52, 32, 64, 64>>
\* " ccc...c": a context line
CONTEXT == <<SPACE>> \o [i \in 1..BulkLen |-> 99]
\* " line1": a context line
CONTEXT_SHORT == <<32, 108, 105, 110, 101, 49>>
\* "+line2"
ADDED == <<43, 108, 105, 110, 101, 50>>
\* "-line3"
REMOVED == <<45, 108, 105, 110, 101, 51>>
\* "+++i;": the added source line "++i;"
ADDED_INCR == <<43, 43, 43, 105, 59>>
\* "---j;": the removed source line "--j;"
REMOVED_DECR == <<45, 45, 45, 106, 59>>
\* "+    x = 1  "
ADDED_PADDED == <<43, 32, 32, 32, 32, 120, 32, 61, 32, 49, 32, 32>>
\* "+aaa...a": a long added line
ADDED_BULK == <<PLUS>> \o [i \in 1..BulkLen |-> 97]
\* "+" and BulkLen CJK characters
ADDED_CJK == <<PLUS>> \o [i \in 1..BulkLen |-> 20013]
\* "not a valid diff"
PROSE == <<110, 111, 116, 32, 97, 32, 118, 97, 108, 105, 100, 32, 100, 105, 102, 102>>

\* the lines a diff for the budget controller is drawn from, in the order
\* they take in a diff: file headers first, then context, then changes
ControllerLines ==
    <<HeaderLine(PATH_SHORT), HeaderLine(PATH_LONG), HeaderLine(PATH_SPACE),
      CONTEXT, ADDED, ADDED_BULK, ADDED_CJK, PROSE>>

\* the lines a diff for Tier 1 line compression is drawn from
Tier1Lines ==
    {HeaderLine(PATH_SHORT), OLD_FILE, NEW_FILE, HUNK, CONTEXT_SHORT, ADDED, REMOVED,
     ADDED_INCR, REMOVED_DECR, ADDED_PADDED}

BoundedSeqs(S, n) == UNION {[1..k -> S] : k \in 0..n}

\* the sequences of at most n lines of the tuple kinds that keep its order
OrderedSeqs(kinds, n) ==
    {[i \in 1..Len(f) |-> kinds[f[i]]] :
        f \in {g \in BoundedSeqs(1..Len(kinds), n) : \A i \in 1..(Len(g) - 1) : g[i] <= g[i + 1]}}

RECURSIVE DiffFrom(_, _)
DiffFrom(ls, i) == IF i > Len(ls) THEN <<>> ELSE ls[i] \o <<NL>> \o DiffFrom(ls, i + 1)

\* the diff text with the given lines, each ended by a newline
DiffOf(ls) == DiffFrom(ls, 1)

\* diffs that touch two files, each header followed by the changes of its
\* file: a configuration file and a source file, in both orders, with short
\* and with long changes
MultiFileDiffs ==
    {DiffOf(<<HeaderLine(PATH_CONFIG_YAML), ADDED, HeaderLine(PATH_SHORT), ADDED, REMOVED>>),
     DiffOf(<<HeaderLine(PATH_SHORT), ADDED, REMOVED, HeaderLine(PATH_CONFIG_YAML), ADDED>>),
     DiffOf(<<HeaderLine(PATH_SHORT), ADDED_BULK, HeaderLine(PATH_CONFIG_YAML), ADDED_BULK>>)}

\* the diffs the budget controller is called with
ControllerDiffs ==
    {DiffOf(ls) : ls \in OrderedSeqs(ControllerLines, MaxDiffLines)} \cup MultiFileDiffs

Providers == {"gemini", "openai", "unknown-provider"}
Models == {"gpt-3.5-turbo", "unknown-model"}

---------------------------------------------------------------------------
(* One call of summary_and_tokens_checker(diff_text, max_output_tokens,    *)
(* model_name, provider), in the order of its statements                   *)

\* the function is called on its own, not from cli.main
NoCaller == config = [provider |-> "", model |-> "", max_tokens |-> 0]

\* no file is being scored
NoScorer ==
    /\ file_path = <<>>
    /\ added_lines = 0
    /\ removed_lines = 0
    /\ score = 0

\* no estimate has been made: the cache of handles is empty
NoEstimates ==
    /\ encoding_cache = <<>>
    /\ estimate_calls = <<>>
    /\ handles_built = 0

\* no message is being cleaned
NoMessage ==
    /\ commit_msg = <<>>
    /\ cleaned = <<>>
    /\ cleaned_again = <<>>

\* main is not running beyond its call of the budget controller
NoMain ==
    /\ args = [show_config |-> FALSE, confirm |-> "y"]
    /\ response = <<>>
    /\ confirm_input = ""
    /\ events = <<>>
    /\ displayed = <<>>
    /\ committed = <<>>

\* the state of the token estimator
Estimator == <<encoding_cache, estimate_calls, handles_built>>

\* the state of clean_thinking_process and of the rest of main
Message == <<commit_msg, cleaned, cleaned_again>>
Main == <<args, response, confirm_input, events, displayed, committed>>

\* the state of the caller, of the scorer, of the message cleaner and of the
\* rest of main, which the budget controller and Tier 1 line compression
\* leave alone
Elsewhere ==
    <<config, file_path, added_lines, removed_lines, score,
      commit_msg, cleaned, cleaned_again,
      args, response, confirm_input, events, displayed, committed>>

\* one call of count_tokens for model m: the handle of m is looked up in
\* the cache, constructed when it is not there, and is then the most
\* recently used one
CountTokensCall(m) ==
    /\ encoding_cache' = lru_cache_after(encoding_cache, m)
    /\ estimate_calls' = Append(estimate_calls, m)
    /\ handles_built' = handles_built + (IF builds_handle(encoding_cache, m) THEN 1 ELSE 0)

Init ==
    /\ diff_text \in ControllerDiffs
    /\ max_output_tokens \in 1..MaxBudget
    /\ model_name \in Models
    /\ provider \in Providers
    /\ max_lines = MAX_COMPRESSED_LINES
    /\ pc = "call"
    /\ compressed = <<>>
    /\ outcome = "pending"
    /\ result = <<>>
    /\ return_path = "none"
    /\ chars_per_token = 0
    /\ NoCaller
    /\ NoScorer
    /\ NoEstimates
    /\ NoMessage
    /\ NoMain

Inputs == <<diff_text, max_output_tokens, model_name, provider, max_lines>>

\* return value at the return statement named path
Return(path, value) ==
    /\ pc' = "done"
    /\ outcome' = "returned"
    /\ result' = value
    /\ return_path' = path

\* lines 100-103: the first estimate.  A failure of count_tokens is caught
\* nowhere in the function and reaches the caller; a diff within the budget
\* is returned as it is; otherwise the call goes on to compress.
FirstEstimate ==
    /\ pc = "call"
    /\ IF count_tokens_raises(model_name)
       THEN /\ pc' = "done"
            /\ outcome' = "raised"
            /\ UNCHANGED <<result, return_path>>
       ELSE IF fits_budget(count_tokens(diff_text, model_name, provider), max_output_tokens)
       THEN Return("original", diff_text)
       ELSE /\ pc' = "compress"
            /\ UNCHANGED <<outcome, result, return_path>>
    /\ IF count_tokens_raises(model_name)
       THEN UNCHANGED Estimator
       ELSE CountTokensCall(model_name)
    /\ UNCHANGED <<compressed, chars_per_token>>
    /\ UNCHANGED Inputs
    /\ UNCHANGED Elsewhere

\* lines 105-110: warning, summary and compressed diff are assembled
Compress ==
    /\ pc = "compress"
    /\ compressed' = compressed_prompt(diff_text)
    /\ pc' = "second_estimate"
    /\ UNCHANGED <<outcome, result, return_path, chars_per_token>>
    /\ UNCHANGED Estimator
    /\ UNCHANGED Inputs
    /\ UNCHANGED Elsewhere

\* lines 112-115: the compressed prompt fits
ReturnCompressed ==
    /\ pc = "second_estimate"
    /\ fits_budget(count_tokens(compressed, model_name, provider), max_output_tokens)
    /\ Return("compressed", compressed)
    /\ CountTokensCall(model_name)
    /\ UNCHANGED <<compressed, chars_per_token>>
    /\ UNCHANGED Inputs
    /\ UNCHANGED Elsewhere

\* lines 117-133: the compressed prompt does not fit and is cut in the middle
ReturnTruncated ==
    /\ pc = "second_estimate"
    /\ ~fits_budget(count_tokens(compressed, model_name, provider), max_output_tokens)
    /\ LET c == chars_to_remove(compressed, max_output_tokens, model_name, provider)
       IN  /\ can_truncate(Len(compressed), c)
           /\ Return("truncated", truncated_prompt(compressed, c))
    /\ chars_per_token' = _get_chars_per_token_ratio(compressed, provider)
    /\ CountTokensCall(model_name)
    /\ UNCHANGED <<compressed>>
    /\ UNCHANGED Inputs
    /\ UNCHANGED Elsewhere

\* lines 135-136: too little would be left, the compressed prompt is returned
ReturnFallback ==
    /\ pc = "second_estimate"
    /\ ~fits_budget(count_tokens(compressed, model_name, provider), max_output_tokens)
    /\ ~can_truncate(Len(compressed), chars_to_remove(compressed, max_output_tokens, model_name, provider))
    /\ Return("fallback", compressed)
    /\ chars_per_token' = _get_chars_per_token_ratio(compressed, provider)
    /\ CountTokensCall(model_name)
    /\ UNCHANGED <<compressed>>
    /\ UNCHANGED Inputs
    /\ UNCHANGED Elsewhere

Next == FirstEstimate \/ Compress \/ ReturnCompressed \/ ReturnTruncated \/ ReturnFallback

Spec == Init /\ [][Next]_vars

---------------------------------------------------------------------------
(* Properties of summary_and_tokens_checker                                *)

Done == pc = "done"
Returned == pc = "done" /\ outcome = "returned"

\* the estimate of a text under the call's model and provider
Estimate(text) == count_tokens(text, model_name, provider)

\* the diff was over the budget: the call went past the first return
OverBudget == Returned /\ return_path \in {"compressed", "truncated", "fallback"}

\* C1: a diff whose token estimate is within the budget (the empty diff
\* included) is returned unchanged, character for character.
C1_UnchangedWithinBudget ==
    (Done /\ Estimate(diff_text) <= max_output_tokens)
        => (outcome = "returned" /\ return_path = "original" /\ result = diff_text)

\* C1 witness: a non-empty diff whose estimate is exactly the budget has
\* been returned as it is.
C1_Witness ==
    /\ Returned
    /\ diff_text # <<>>
    /\ Estimate(diff_text) = max_output_tokens
    /\ result = diff_text

C3_NeverExpands == OverBudget => Len(result) <= Len(diff_text)

\* C4: a non-empty diff and a budget of at least 1 give a non-empty result
\* on every return path.
C4_NonEmpty ==
    (Returned /\ diff_text # <<>> /\ max_output_tokens >= 1) => result # <<>>

\* C4 witness: a diff without any added or removed line went over the
\* budget and something was returned for it.
C4_Witness ==
    /\ OverBudget
    /\ compress_diff_to_bullets(diff_text, MAX_COMPRESSED_LINES) = <<>>
    /\ result # <<>>

\* C5: the call never raises: no failure of an internal step reaches the
\* caller, and a call that has ended has returned a string.
C5_NeverRaises ==
    /\ outcome # "raised"
    /\ Done => (outcome = "returned" /\ result \in Seq(Nat))

\* C5 witness: a call with an unknown model name and an unknown provider has
\* gone through compression and returned.
C5_Witness ==
    /\ OverBudget
    /\ model_name \notin DOMAIN MODEL_TO_ENCODING
    /\ provider \notin {"gemini", "openai", "openrouter"}

\* the diff has no file header the summary could list
NoDiffStructure(d) == ~Contains(d, DIFF_GIT_A)

\* C6 as claimed: for an over-budget text without unified-diff structure the
\* value built before any truncation is the Tier 1 output for the text, and
\* it is non-empty.
C6_IsTier1Output ==
    (OverBudget /\ NoDiffStructure(diff_text))
        => /\ compressed = compress_diff_to_bullets(diff_text, MAX_COMPRESSED_LINES)
           /\ compressed # <<>>

\* C6 as amended: for an over-budget text without unified-diff structure the
\* value built before any truncation is the warning (empty up to 15000
\* characters), a newline, the summary title with no file under it and the
\* details header, followed by the Tier 1 output for the text; it is
\* non-empty, it is what the compressed and the fallback return hand back,
\* and no error is surfaced.
C6_WrappedTier1Output ==
    (Done /\ return_path # "original" /\ NoDiffStructure(diff_text))
        => /\ outcome = "returned"
           /\ compressed = check_diff_length(diff_text) \o <<NL>> \o SUMMARY_TITLE \o DETAILS_HEADER
                               \o compress_diff_to_bullets(diff_text, MAX_COMPRESSED_LINES)
           /\ compressed # <<>>
           /\ return_path \in {"compressed", "fallback"} => result = compressed

\* C6 witness: prose went over the budget and came back by the fallback.
C6_Witness ==
    /\ OverBudget
    /\ diff_text = DiffOf(<<PROSE>>)
    /\ return_path = "fallback"

\* "(compressed version)"
COMPRESSED_TAG == <<40, 99, 111, 109, 112, 114, 101, 115, 115, 101, 100, 32, 118, 101, 114, 115, 105, 111, 110, 41>>
\* "...<truncated"
TRUNCATED_TAG == <<46, 46, 46, 60, 116, 114, 117, 110, 99, 97, 116, 101, 100>>

HasMarker(text) == Contains(text, COMPRESSED_TAG) \/ Contains(text, TRUNCATED_TAG)

\* d is one 'diff --git a/<path> b/<path>' header followed by added lines
OneFileDiff(d, path) ==
    /\ startswith(d, HeaderLine(path) \o <<NL>>)
    /\ LET body == splitlines(SliceFrom(d, Len(HeaderLine(path)) + 1))
       IN  /\ Len(body) >= 1
           /\ \A i \in 1..Len(body) : startswith(body[i], <<PLUS>>)

\* C7 as claimed: for an over-budget diff of one file the returned text
\* contains the file's path and a truncation or compression marker.
C7_PathAndMarker ==
    \A path \in Paths :
        (OverBudget /\ OneFileDiff(diff_text, path))
            => (Contains(result, path) /\ HasMarker(result))

\* the lengths the truncation works with: L, c and n = L - c
TruncL == Len(compressed)
TruncC == chars_to_remove(compressed, max_output_tokens, model_name, provider)
TruncN == TruncL - TruncC

Truncated == Returned /\ return_path = "truncated"

\* result is P + marker + S for the prefix P of length kp and the suffix S
\* of length ks of the compressed text, both non-empty, not overlapping, S
\* not the whole text
CutInTheMiddle(kp, ks) ==
    /\ kp >= 1
    /\ ks >= 1
    /\ kp + ks < TruncL
    /\ result = SubSeq(compressed, 1, kp) \o truncation_marker(TruncC)
                    \o SubSeq(compressed, TruncL - ks + 1, TruncL)

\* C10 as claimed: the truncated text is P + marker + S with
\* |P| = floor(0.7 * (L - c)) and |S| = floor(0.1 * (L - c)).
C10_ExactSeventyPercent ==
    Truncated => CutInTheMiddle((7 * TruncN) \div 10, TruncN \div 10)

\* C10 as amended: |P| is int((L - c) * 0.7) as the double product gives it,
\* which is floor(0.7 * (L - c)) or, for some multiples of 10 such as
\* L - c = 170, one less; the rest stands.
C10_SeventyPercentAsComputed ==
    Truncated =>
        \E kp \in {(7 * TruncN) \div 10, (7 * TruncN) \div 10 - 1} :
            CutInTheMiddle(kp, TruncN \div 10)

\* C10 witness: a truncation with the least length it can work on.
C10_Witness == Truncated /\ TruncN = MIN_KEEP_CHARS + 1

---------------------------------------------------------------------------
(* One call of compress_diff_to_bullets(diff_text, max_lines)              *)

InitLines ==
    /\ diff_text \in {DiffOf(ls) : ls \in BoundedSeqs(Tier1Lines, MaxTier1Lines)}
    /\ max_lines \in 1..MaxLinesCap
    /\ max_output_tokens = 1
    /\ model_name = "gpt-4"
    /\ provider = "openai"
    /\ pc = "tier1"
    /\ compressed = <<>>
    /\ outcome = "pending"
    /\ result = <<>>
    /\ return_path = "none"
    /\ chars_per_token = 0
    /\ NoCaller
    /\ NoScorer
    /\ NoEstimates
    /\ NoMessage
    /\ NoMain

\* lines 28-43
CompressLines ==
    /\ pc = "tier1"
    /\ Return("tier1", compress_diff_to_bullets(diff_text, max_lines))
    /\ UNCHANGED Estimator
    /\ UNCHANGED <<compressed, chars_per_token>>
    /\ UNCHANGED Inputs
    /\ UNCHANGED Elsewhere

NextLines == CompressLines

SpecLines == InitLines /\ [][NextLines]_vars

---------------------------------------------------------------------------
(* Properties of Tier 1 line compression                                   *)

Tier1Done == pc = "done" /\ return_path = "tier1"

\* "+++ " and "--- ": the file-header markers of a unified diff
NEW_FILE_MARKER == <<PLUS, PLUS, PLUS, SPACE>>
OLD_FILE_MARKER == <<MINUS, MINUS, MINUS, SPACE>>

\* an added, a removed source line of the diff, file-header markers apart
AddedSourceLine(line) == startswith(line, <<PLUS>>) /\ ~startswith(line, NEW_FILE_MARKER)
RemovedSourceLine(line) == startswith(line, <<MINUS>>) /\ ~startswith(line, OLD_FILE_MARKER)

RECURSIVE ClaimedLinesFrom(_, _)
\* "+ <content>" for every added and "- <content>" for every removed source
\* line, in diff order
ClaimedLinesFrom(lines, i) ==
    IF i > Len(lines) THEN <<>>
    ELSE (IF AddedSourceLine(lines[i]) THEN <<(<<PLUS, SPACE>> \o strip(SliceFrom(lines[i], 1)))>>
          ELSE IF RemovedSourceLine(lines[i]) THEN <<(<<MINUS, SPACE>> \o strip(SliceFrom(lines[i], 1)))>>
          ELSE <<>>)
         \o ClaimedLinesFrom(lines, i + 1)

\* the lines of the output
OutLines == splitlines(result)

\* the change lines among them, and the truncation markers
OutChangeLines == {i \in 1..Len(OutLines) : startswith(OutLines[i], ADD_PREFIX) \/ startswith(OutLines[i], DELETE_PREFIX)}
OutMarkers == {i \in 1..Len(OutLines) : OutLines[i] = TRUNCATED_LINE}

\* the lines of the diff that start with "+" or "-" and are no "+++"/"---" line
DiffChangeLines ==
    LET lines == splitlines(diff_text)
    IN  {i \in 1..Len(lines) :
            \/ (startswith(lines[i], <<PLUS>>) /\ ~startswith(lines[i], <<PLUS, PLUS, PLUS>>))
            \/ (startswith(lines[i], <<MINUS>>) /\ ~startswith(lines[i], <<MINUS, MINUS, MINUS>>))}

\* C8 as claimed: below the cap, the output is one line per added or removed
\* source line of the diff, in diff order, "+ <content>" or "- <content>",
\* lines whose content begins with "++" or "--" included, and nothing else.
C8_OneLinePerSourceLine ==
    (Tier1Done /\ Len(OutLines) < max_lines)
        => OutLines = ClaimedLinesFrom(splitlines(diff_text), 1)

\* C9: at most max_lines change lines are emitted, the truncation marker is
\* there exactly when the cap was hit, then once and as the last line, and
\* the output has at most max_lines + 1 lines.
C9_CapAndMarker ==
    Tier1Done =>
        /\ Cardinality(OutChangeLines) <= max_lines
        /\ Cardinality(OutChangeLines) =
               (IF Cardinality(DiffChangeLines) < max_lines THEN Cardinality(DiffChangeLines) ELSE max_lines)
        /\ (OutMarkers # {}) <=> (Cardinality(DiffChangeLines) >= max_lines)
        /\ OutMarkers \subseteq {Len(OutLines)}
        /\ Len(OutLines) <= max_lines + 1

\* C9 witness: a diff with more change lines than max_lines was compressed
\* and ends with the marker.
C9_Witness ==
    /\ Tier1Done
    /\ Cardinality(DiffChangeLines) > max_lines
    /\ OutLines[Len(OutLines)] = TRUNCATED_LINE

---------------------------------------------------------------------------
(* Properties of Tier 3 character truncation                               *)

\* the lengths of the lead and of the tail the truncation retains
TruncLead == keep_start(TruncL, TruncC)
TruncTail == keep_end(TruncL, TruncC)

\* the number of characters of the compressed text between lead and tail
TruncElided == TruncL - TruncLead - TruncTail

\* C11 as claimed: the number written in the marker of a truncated result is
\* the number of characters of the compressed text that were elided between
\* the retained lead and the retained tail.
C11_MarkerCountsElided ==
    Truncated =>
        result = SliceTo(compressed, TruncLead)
                    \o TRUNC_OPEN \o str_int(TruncElided) \o TRUNC_CLOSE
                    \o SliceLast(compressed, TruncTail)

\* the compressed text is still over the budget and cutting chars_to_remove
\* characters would leave MIN_KEEP_CHARS characters or fewer of it
CannotTruncate ==
    /\ OverBudget
    /\ Estimate(compressed) > max_output_tokens
    /\ TruncN <= MIN_KEEP_CHARS

\* C12: when the compressed text is over the budget and truncation would
\* leave 100 characters or fewer, the compressed text is returned exactly as
\* it is, on the fallback path, and it is not empty.
C12_FallbackReturnsCompressed ==
    CannotTruncate =>
        /\ return_path = "fallback"
        /\ result = compressed
        /\ result # <<>>

\* C12 witness: a fallback where the characters to remove exceed the whole
\* compressed text, and one where exactly 100 characters would be left.
C12_Witness ==
    /\ CannotTruncate
    /\ return_path = "fallback"
    /\ TruncN = MIN_KEEP_CHARS

---------------------------------------------------------------------------
(* Calls with every kind of provider identifier: of the budget controller, *)
(* and of _get_chars_per_token_ratio(text, provider) on its own            *)

\* the longest text drawn for a call of _get_chars_per_token_ratio
MaxTextLen == 10

\* the providers of the docstring (line 93), one more the tests name, an
\* unknown one and the empty string
AllProviders == {"gemini", "openai", "openrouter", "ollama", "nvidia", "unknown-provider", ""}

\* the text of n characters whose first k are the character cj and whose
\* others are the character ot
TextOf(cj, k, ot, n) == [i \in 1..n |-> IF i <= k THEN cj ELSE ot]

\* texts with every share of CJK characters: the characters at both ends of
\* the CJK range and inside it, and those just outside it
RatioTexts ==
    {TextOf(cj, k, ot, n) :
        cj \in {CJK_FIRST, 20013, CJK_LAST},
        ot \in {97, CJK_FIRST - 1, CJK_LAST + 1},
        k \in 0..MaxTextLen,
        n \in 0..MaxTextLen}

\* a call of the budget controller with any provider identifier
InitProviders ==
    /\ diff_text \in ControllerDiffs
    /\ max_output_tokens \in 1..MaxBudget
    /\ model_name = "unknown-model"
    /\ provider \in AllProviders
    /\ max_lines = MAX_COMPRESSED_LINES
    /\ pc = "call"
    /\ compressed = <<>>
    /\ outcome = "pending"
    /\ result = <<>>
    /\ return_path = "none"
    /\ chars_per_token = 0
    /\ NoCaller
    /\ NoScorer
    /\ NoEstimates
    /\ NoMessage
    /\ NoMain

\* a call of _get_chars_per_token_ratio(text, provider); the text is held
\* where line 121 takes it from, in compressed
InitRatio ==
    /\ compressed \in RatioTexts
    /\ provider \in AllProviders
    /\ pc = "ratio"
    /\ diff_text = <<>>
    /\ max_output_tokens = 1
    /\ model_name = "unknown-model"
    /\ max_lines = MAX_COMPRESSED_LINES
    /\ outcome = "pending"
    /\ result = <<>>
    /\ return_path = "none"
    /\ chars_per_token = 0
    /\ NoCaller
    /\ NoScorer
    /\ NoEstimates
    /\ NoMessage
    /\ NoMain

\* lines 46-75
GetRatio ==
    /\ pc = "ratio"
    /\ chars_per_token' = _get_chars_per_token_ratio(compressed, provider)
    /\ pc' = "done"
    /\ outcome' = "returned"
    /\ return_path' = "ratio"
    /\ UNCHANGED Estimator
    /\ UNCHANGED <<compressed, result>>
    /\ UNCHANGED Inputs
    /\ UNCHANGED Elsewhere

InitAnyProvider == InitProviders \/ InitRatio

NextAnyProvider == Next \/ GetRatio

SpecProviders == InitAnyProvider /\ [][NextAnyProvider]_vars

---------------------------------------------------------------------------
(* Properties of the characters-per-token ratio                            *)

\* a ratio was selected: by a call of its own, or at line 121
RatioSelected == Returned /\ return_path \in {"ratio", "truncated", "fallback"}

\* the text the ratio was selected for
RatioText == compressed

\* the number of characters of the text in U+4E00..U+9FFF
CjkCount(text) == Cardinality({i \in 1..Len(text) : text[i] >= CJK_FIRST /\ text[i] <= CJK_LAST})

\* the share of CJK characters of the text is above 30%; the empty text has
\* share 0
PrimarilyCjk(text) == Len(text) > 0 /\ 10 * CjkCount(text) > 3 * Len(text)

\* C13: for gemini the ratio is 2.0 for a primarily CJK text and 3.5 for any
\* other text, for openai and openrouter it is 2.5 and 4.0: strictly lower
\* for a primarily CJK text.  A share of exactly 30% and the empty text are
\* not primarily CJK.
C13_LowerRatioForCjk ==
    RatioSelected =>
        /\ (provider = "gemini") =>
               chars_per_token = (IF PrimarilyCjk(RatioText) THEN 20 ELSE 35)
        /\ (provider \in {"openai", "openrouter"}) =>
               chars_per_token = (IF PrimarilyCjk(RatioText) THEN 25 ELSE 40)

\* C13 witness: a text of 10 characters, exactly 3 of them CJK, got the
\* ratio of openrouter for a text that is not primarily CJK.
C13_Witness ==
    /\ RatioSelected
    /\ provider = "openrouter"
    /\ Len(RatioText) = 10
    /\ CjkCount(RatioText) = 3
    /\ chars_per_token = 40

\* C14: every provider identifier gets exactly one ratio of the table, an
\* identifier outside the recognized families gets 3.5 whatever the text,
\* which lies between 2.0 and 4.0, and no identifier makes the ratio
\* selection or the budget controller fail.
C14_DefaultRatioForOtherProviders ==
    /\ Done => outcome = "returned"
    /\ RatioSelected =>
        /\ chars_per_token \in {20, 25, 35, 40}
        /\ (provider \notin {"gemini", "openai", "openrouter"}) => chars_per_token = 35

\* C14 witness: the budget controller reached line 121 with an empty
\* provider identifier and a primarily CJK text, and used 3.5.
C14_Witness ==
    /\ Returned
    /\ return_path = "truncated"
    /\ provider = ""
    /\ PrimarilyCjk(RatioText)
    /\ chars_per_token = 35

---------------------------------------------------------------------------
(* One run of cli.main up to the budgeting of the staged diff              *)

\* provider: str = "openai", the default of the fourth parameter (line 79)
DEFAULT_PROVIDER == "openai"

\* the providers a configuration is drawn from
ConfigProviders == {"gemini", "openai", "ollama"}

\* main has resolved the configuration (lines 36-37) and read the staged
\* diff (line 46); nothing has been passed to the budget controller yet
InitCli ==
    /\ config \in [provider : ConfigProviders, model : Models, max_tokens : 1..MaxBudget]
    /\ diff_text \in ControllerDiffs
    /\ pc = "main"
    /\ max_output_tokens = 0
    /\ model_name = ""
    /\ provider = ""
    /\ max_lines = MAX_COMPRESSED_LINES
    /\ compressed = <<>>
    /\ outcome = "pending"
    /\ result = <<>>
    /\ return_path = "none"
    /\ chars_per_token = 0
    /\ NoScorer
    /\ NoEstimates
    /\ NoMessage
    /\ NoMain

\* cli.py lines 47-51: without staged changes main warns and returns; else it
\* calls summary_and_tokens_checker(diff, config.max_tokens, config.model),
\* with three arguments, so that provider takes its default
CallChecker ==
    /\ pc = "main"
    /\ IF diff_text = <<>>
       THEN /\ pc' = "done"
            /\ outcome' = "no_changes"
            /\ UNCHANGED <<max_output_tokens, model_name, provider>>
       ELSE /\ pc' = "call"
            /\ max_output_tokens' = config.max_tokens
            /\ model_name' = config.model
            /\ provider' = DEFAULT_PROVIDER
            /\ UNCHANGED outcome
    /\ UNCHANGED <<diff_text, max_lines, compressed, result, return_path, chars_per_token>>
    /\ UNCHANGED Estimator
    /\ UNCHANGED Elsewhere

NextCli == CallChecker \/ Next

SpecCli == InitCli /\ [][NextCli]_vars

\* the run has reached budgeting: the budget controller was called
Budgeting == pc # "main" /\ outcome # "no_changes"

\* C15 as claimed: in every run that reaches budgeting, the provider the
\* budget controller works with is the provider of the configuration, and
\* the ratio of line 121 is the one of that provider.
C15_ProviderFromConfig ==
    Budgeting =>
        /\ provider = config.provider
        /\ (return_path \in {"truncated", "fallback"}) =>
               chars_per_token = _get_chars_per_token_ratio(compressed, config.provider)

---------------------------------------------------------------------------
(* The file importance scorer, calculate_file_importance(file_path,        *)
(* added_lines, removed_lines).  Its source is not part of this snapshot   *)
(* of prompt_organizer.py; it is modelled from section 4.2 of the          *)
(* specification and from the values its tests assert                      *)
(* (tests/test_prompt_organizer.py, TestCalculateFileImportance).          *)

\* str.endswith
endswith(s, suffix) ==
    /\ Len(s) >= Len(suffix)
    /\ SubSeq(s, Len(s) - Len(suffix) + 1, Len(s)) = suffix

\* the part of the path after its last "/"
basename(path) ==
    LET slashes == {i \in 1..Len(path) : path[i] = 47}
    IN  IF slashes = {} THEN path
        ELSE SubSeq(path, (CHOOSE i \in slashes : \A j \in slashes : j <= i) + 1, Len(path))

\* ".py", ".js", ".ts", ".go", ".rs", ".java", ".cpp", ".c"
PRIMARY_SOURCE_EXTENSIONS ==
    {<<46, 112, 121>>,
     <<46, 106, 115>>,
     <<46, 116, 115>>,
     <<46, 103, 111>>,
     <<46, 114, 115>>,
     <<46, 106, 97, 118, 97>>,
     <<46, 99, 112, 112>>,
     <<46, 99>>}
\* ".yaml", ".json", ".toml"
CONFIG_EXTENSIONS ==
    {<<46, 121, 97, 109, 108>>,
     <<46, 106, 115, 111, 110>>,
     <<46, 116, 111, 109, 108>>}
\* ".md"
MARKDOWN_EXTENSION == <<46, 109, 100>>
\* "test"
TEST_SEGMENT == <<116, 101, 115, 116>>
\* "README.md", "pyproject.toml", "package.json"
SPECIAL_FILES ==
    {<<82, 69, 65, 68, 77, 69, 46, 109, 100>>,
     <<112, 121, 112, 114, 111, 106, 101, 99, 116, 46, 116, 111, 109, 108>>,
     <<112, 97, 99, 107, 97, 103, 101, 46, 106, 115, 111, 110>>}

SOURCE_SCORE == 10
CONFIG_SCORE == 5
MARKDOWN_SCORE == 2
TEST_SCORE == 2
SPECIAL_BONUS == 8
CHANGE_CAP == 50

has_extension(path, extensions) == \E e \in extensions : endswith(path, e)

\* plausible defect: every matching category adds its score
base_score_additive(path) ==
    (IF has_extension(path, PRIMARY_SOURCE_EXTENSIONS) THEN SOURCE_SCORE ELSE 0)
    + (IF has_extension(path, CONFIG_EXTENSIONS) THEN CONFIG_SCORE ELSE 0)
    + (IF endswith(path, MARKDOWN_EXTENSION) THEN MARKDOWN_SCORE ELSE 0)
    + (IF Contains(path, TEST_SEGMENT) THEN TEST_SCORE ELSE 0)

\* steps 1-5 of section 4.2: the first matching category sets the base score
base_score(path) ==
    IF has_extension(path, PRIMARY_SOURCE_EXTENSIONS) THEN SOURCE_SCORE
    ELSE IF has_extension(path, CONFIG_EXTENSIONS) THEN CONFIG_SCORE
    ELSE IF endswith(path, MARKDOWN_EXTENSION) THEN MARKDOWN_SCORE
    ELSE IF Contains(path, TEST_SEGMENT) THEN TEST_SCORE
    ELSE 0

\* plausible defect: the bonus goes to a special basename in any directory
is_special_any_directory(path) == basename(path) \in SPECIAL_FILES

\* Section 4.2 gives the bonus to a basename that is a special file.  The
\* tests assert 15 for "README.md" (2 + 8 + 5) and 7 for "tests/README.md"
\* (2 + 5): under a test directory the basename does not get the bonus.
is_special(path) == basename(path) \in SPECIAL_FILES /\ ~Contains(path, TEST_SEGMENT)

\* plausible defect: the change volume is not capped
change_volume_uncapped(added, removed) == added + removed

\* min(added_lines + removed_lines, 50)
change_volume(added, removed) ==
    IF added + removed < CHANGE_CAP THEN added + removed ELSE CHANGE_CAP

calculate_file_importance(path, added, removed) ==
    base_score(path)
    + (IF is_special(path) THEN SPECIAL_BONUS ELSE 0)
    + change_volume(added, removed)

---------------------------------------------------------------------------
(* Calls of calculate_file_importance, one after the other, for one path   *)

\* the largest small number of added lines drawn
MaxAdded == 10

\* "src/main.py"
PATH_MAIN_PY == <<115, 114, 99, 47, 109, 97, 105, 110, 46, 112, 121>>
\* "app/index.js"
PATH_INDEX_JS == <<97, 112, 112, 47, 105, 110, 100, 101, 120, 46, 106, 115>>
\* "tests/test_main.py"
PATH_TEST_MAIN_PY == <<116, 101, 115, 116, 115, 47, 116, 101, 115, 116, 95, 109, 97, 105, 110, 46, 112, 121>>
\* "tests/README.md"
PATH_TESTS_README == <<116, 101, 115, 116, 115, 47, 82, 69, 65, 68, 77, 69, 46, 109, 100>>
\* "package-lock.json"
PATH_PACKAGE_LOCK == <<112, 97, 99, 107, 97, 103, 101, 45, 108, 111, 99, 107, 46, 106, 115, 111, 110>>
\* "README.md"
PATH_README == <<82, 69, 65, 68, 77, 69, 46, 109, 100>>
\* "pyproject.toml"
PATH_PYPROJECT == <<112, 121, 112, 114, 111, 106, 101, 99, 116, 46, 116, 111, 109, 108>>
\* "src/huge.py"
PATH_HUGE_PY == <<115, 114, 99, 47, 104, 117, 103, 101, 46, 112, 121>>
\* "docs/README.md"
PATH_DOCS_README == <<100, 111, 99, 115, 47, 82, 69, 65, 68, 77, 69, 46, 109, 100>>
\* "notes.txt"
PATH_NOTES_TXT == <<110, 111, 116, 101, 115, 46, 116, 120, 116>>
\* "tests/data.bin"
PATH_TESTS_DATA == <<116, 101, 115, 116, 115, 47, 100, 97, 116, 97, 46, 98, 105, 110>>
\* "tests/notes.md"
PATH_TESTS_NOTES_MD == <<116, 101, 115, 116, 115, 47, 110, 111, 116, 101, 115, 46, 109, 100>>
\* "docs/guide.md"
PATH_GUIDE_MD == <<100, 111, 99, 115, 47, 103, 117, 105, 100, 101, 46, 109, 100>>
\* "package.json"
PATH_PACKAGE_JSON == <<112, 97, 99, 107, 97, 103, 101, 46, 106, 115, 111, 110>>

\* the paths of the tests, and paths of each category in other directories
ScorePaths ==
    {PATH_MAIN_PY, PATH_INDEX_JS, PATH_CONFIG_YAML, PATH_TEST_MAIN_PY,
     PATH_TESTS_README, PATH_PACKAGE_LOCK, PATH_README, PATH_PYPROJECT,
     PATH_HUGE_PY, PATH_DOCS_README, PATH_NOTES_TXT, PATH_TESTS_DATA,
     PATH_TESTS_NOTES_MD, PATH_GUIDE_MD, PATH_PACKAGE_JSON}

\* the line counts of the tests, the counts around the cap and far above it
AddedCounts == (0..MaxAdded) \cup {20, 49, 50, 100}
RemovedCounts == {0, 1, 3, 5, 10, 50, 100, 1000}

InitScore ==
    /\ file_path \in ScorePaths
    /\ added_lines = 0
    /\ removed_lines = 0
    /\ score = 0
    /\ pc = "score"
    /\ diff_text = <<>>
    /\ max_output_tokens = 1
    /\ model_name = "unknown-model"
    /\ provider = DEFAULT_PROVIDER
    /\ max_lines = MAX_COMPRESSED_LINES
    /\ compressed = <<>>
    /\ outcome = "pending"
    /\ result = <<>>
    /\ return_path = "none"
    /\ chars_per_token = 0
    /\ NoCaller
    /\ NoEstimates
    /\ NoMessage
    /\ NoMain

\* one call with the path and any line counts
CalculateFileImportance ==
    /\ pc \in {"score", "scored"}
    /\ \E added \in AddedCounts, removed \in RemovedCounts :
        /\ added_lines' = added
        /\ removed_lines' = removed
        /\ score' = calculate_file_importance(file_path, added, removed)
    /\ pc' = "scored"
    /\ UNCHANGED <<file_path, config>>
    /\ UNCHANGED Estimator
    /\ UNCHANGED Message
    /\ UNCHANGED Main
    /\ UNCHANGED <<compressed, outcome, result, return_path, chars_per_token>>
    /\ UNCHANGED Inputs

NextScore == CalculateFileImportance

SpecScore == InitScore /\ [][NextScore]_vars

---------------------------------------------------------------------------
(* Properties of the file importance scorer                                *)

\* a call has returned
Scored == pc = "scored"

\* the change volume of the call, and what it adds to the score when capped
Volume == added_lines + removed_lines
VolumeTerm == IF Volume < 50 THEN Volume ELSE 50

\* what the call added for a special file
BonusGiven == IF is_special(file_path) THEN 8 ELSE 0

\* the categories of section 4.2 in their fixed order, each with its score
Categories(path) ==
    <<[matches |-> \E e \in PRIMARY_SOURCE_EXTENSIONS : endswith(path, e), points |-> 10],
      [matches |-> \E e \in CONFIG_EXTENSIONS : endswith(path, e), points |-> 5],
      [matches |-> endswith(path, MARKDOWN_EXTENSION), points |-> 2],
      [matches |-> Contains(path, TEST_SEGMENT), points |-> 2],
      [matches |-> TRUE, points |-> 0]>>

\* the score of the first category of the list that matches the path
FirstCategoryScore(path) ==
    LET cs == Categories(path)
        first == CHOOSE i \in 1..Len(cs) : cs[i].matches /\ \A j \in 1..(i - 1) : ~cs[j].matches
    IN  cs[first].points

\* C17: the base score is the score of the first matching category alone:
\* a .py file under tests/ has base 10 (25 for 10 added and 5 removed
\* lines), package-lock.json has base 5 (55 for 100 added and 50 removed).
C17_FirstCategoryOnly ==
    Scored =>
        /\ score - VolumeTerm - BonusGiven = FirstCategoryScore(file_path)
        /\ (file_path = PATH_TEST_MAIN_PY /\ added_lines = 10 /\ removed_lines = 5) => score = 25
        /\ (file_path = PATH_PACKAGE_LOCK /\ added_lines = 100 /\ removed_lines = 50) => score = 55

\* C17 witness: tests/test_main.py with 10 added and 5 removed lines scored 25.
C17_Witness ==
    /\ Scored
    /\ file_path = PATH_TEST_MAIN_PY
    /\ added_lines = 10
    /\ removed_lines = 5
    /\ score = 25

\* C18 as claimed: for every path whose basename is a special file, in any
\* directory, the score is the base score plus 8 plus the change-volume term.
C18_BonusForSpecialBasename ==
    (Scored /\ basename(file_path) \in SPECIAL_FILES)
        => score = FirstCategoryScore(file_path) + 8 + VolumeTerm

\* C19: for a fixed path the score does not decrease when the change volume
\* grows, a volume of v adds min(v, 50) to the score of the path with no
\* change, and two calls with volumes of 50 or more score the same.
C19_VolumeCappedAndMonotone ==
    [][(Scored /\ Scored') =>
          /\ (Volume <= Volume') => (score <= score')
          /\ (Volume >= 50 /\ Volume' >= 50) => (score' = score)
          /\ (Volume = 0) => (score' - score = (IF Volume' < 50 THEN Volume' ELSE 50))]_vars

\* C19 witness: src/huge.py with 100 added and 100 removed lines scored 60.
C19_Witness ==
    /\ Scored
    /\ file_path = PATH_HUGE_PY
    /\ added_lines = 100
    /\ removed_lines = 100
    /\ score = 60

---------------------------------------------------------------------------
(* Properties of the compressed result for a diff that touches several     *)
(* files                                                                   *)

\* the paths of the file headers the diffs are drawn from
DiffPaths == Paths \cup {PATH_CONFIG_YAML}

\* the index of the first occurrence of pat in text, 0 when there is none
IndexOf(text, pat) ==
    LET at == {i \in 1..(Len(text) - Len(pat) + 1) : SubSeq(text, i, i + Len(pat) - 1) = pat}
    IN  IF at = {} THEN 0 ELSE CHOOSE i \in at : \A j \in at : i <= j

\* the lines of the diff, and the line of the header of a file (0: none)
DiffLines == splitlines(diff_text)
HeaderIndex(path) ==
    LET at == {i \in 1..Len(DiffLines) : DiffLines[i] = HeaderLine(path)}
    IN  IF at = {} THEN 0 ELSE CHOOSE i \in at : \A j \in at : i <= j

\* the diff touches the file
Touched(path) == HeaderIndex(path) > 0

\* the lines of the file's block: from its header to the next header
BlockOf(path) ==
    {i \in (HeaderIndex(path) + 1)..Len(DiffLines) :
        \A j \in (HeaderIndex(path) + 1)..i : ~startswith(DiffLines[j], DIFF_GIT_A)}

\* the importance score of the file, from the changes of its block
ScoreOf(path) ==
    calculate_file_importance(path,
        Cardinality({i \in BlockOf(path) : AddedSourceLine(DiffLines[i])}),
        Cardinality({i \in BlockOf(path) : RemovedSourceLine(DiffLines[i])}))

\* the file is in the result: its path is; and then it is there whole when
\* every added and removed line of its block is there too, compressed
Included(path) == Contains(result, path)
IncludedWhole(path) ==
    \A i \in BlockOf(path) :
        (AddedSourceLine(DiffLines[i]) \/ RemovedSourceLine(DiffLines[i]))
            => Contains(result, strip(SliceFrom(DiffLines[i], 1)))

\* C16 as claimed: the result for an over-budget diff that touches several
\* files visits the files in descending importance score, includes a file
\* whole or not at all, omits no file that scores higher than an included
\* one, and is not empty.
C16_FilesByImportance ==
    LET files == {p \in DiffPaths : Touched(p)}
    IN  (OverBudget /\ Cardinality(files) >= 2) =>
            /\ result # <<>>
            /\ \A p \in files : Included(p) => IncludedWhole(p)
            /\ \A p, q \in files :
                   /\ (Included(p) /\ Included(q) /\ IndexOf(result, p) < IndexOf(result, q))
                          => ScoreOf(p) >= ScoreOf(q)
                   /\ (Included(q) /\ ~Included(p)) => ScoreOf(p) <= ScoreOf(q)

\* ---------------------------------------------------------------------
\* Tier 3: the length of a truncated result
\* ---------------------------------------------------------------------

\* C29 as claimed: whenever Tier 3 truncation is applied, the returned text
\* (lead + marker + tail) is strictly shorter than the compressed text the
\* truncation was applied to.
C29_TruncatedIsShorter ==
    Truncated => Len(result) < Len(compressed)

---------------------------------------------------------------------------
(* The length warning: calls of the budget controller with diffs around    *)
(* MAX_DIFF_LENGTH characters                                              *)

\* the number of "+" of the very large diff of the tests
HUGE_PLUS_COUNT == 20000

\* "Diff too long", the words of the warning
DIFF_TOO_LONG == SubSeq(WARN_PREFIX, 4, 16)

\* a diff of exactly n characters: a file header, one long context line and
\* one added line
LongContextDiff(n) ==
    LET fill == n - Len(DiffOf(<<HeaderLine(PATH_SHORT), ADDED>>)) - 2
    IN  DiffOf(<<HeaderLine(PATH_SHORT), <<SPACE>> \o [i \in 1..fill |-> 99], ADDED>>)

\* a file header and one added line of more than MAX_DIFF_LENGTH characters
LongAddedDiff ==
    DiffOf(<<HeaderLine(PATH_SHORT), <<PLUS>> \o [i \in 1..MAX_DIFF_LENGTH |-> 97]>>)

\* "diff --git a/a.py b/a.py\n" + "+" * 20000
HugePlusDiff ==
    HeaderLine(PATH_SHORT) \o <<NL>> \o [i \in 1..HUGE_PLUS_COUNT |-> PLUS]

\* a short diff, diffs of MAX_DIFF_LENGTH characters and of one more, and
\* far longer ones
LongDiffs ==
    {DiffOf(<<HeaderLine(PATH_SHORT), ADDED>>),
     LongContextDiff(MAX_DIFF_LENGTH), LongContextDiff(MAX_DIFF_LENGTH + 1),
     LongAddedDiff, HugePlusDiff}

InitLong ==
    /\ diff_text \in LongDiffs
    /\ max_output_tokens \in 1..MaxBudget
    /\ model_name \in Models
    /\ provider \in Providers
    /\ max_lines = MAX_COMPRESSED_LINES
    /\ pc = "call"
    /\ compressed = <<>>
    /\ outcome = "pending"
    /\ result = <<>>
    /\ return_path = "none"
    /\ chars_per_token = 0
    /\ NoCaller
    /\ NoScorer
    /\ NoEstimates
    /\ NoMessage
    /\ NoMain

SpecLong == InitLong /\ [][Next]_vars

\* the warning of the diff up to the closing parenthesis of its count of
\* characters: "⚠️ Diff too long (N characters)"
WarningHead(d) == WARN_PREFIX \o str_int(Len(d)) \o SubSeq(WARN_SUFFIX, 1, 12)

\* C21: the result for an over-budget diff of more than MAX_DIFF_LENGTH
\* characters begins with the 'Diff too long' warning and the count of the
\* diff's characters, on the compressed, the truncated and the fallback
\* path, and with the whole warning line where nothing was cut; the result
\* for an over-budget diff of at most MAX_DIFF_LENGTH characters begins
\* with the empty warning line and holds no 'Diff too long'.
C21_WarningAssembled ==
    OverBudget =>
        IF Len(diff_text) > MAX_DIFF_LENGTH
        THEN /\ startswith(result, WarningHead(diff_text))
             /\ Contains(result, DIFF_TOO_LONG)
             /\ return_path \in {"compressed", "fallback"}
                    => startswith(result, check_diff_length(diff_text) \o <<NL>>)
        ELSE /\ startswith(result, <<NL>> \o SUMMARY_TITLE)
             /\ ~Contains(result, DIFF_TOO_LONG)

\* C21 witness: a diff of more than MAX_DIFF_LENGTH characters was truncated
\* so far that the cut falls inside the warning line, whose first words and
\* count are still returned
C21_Witness ==
    /\ Truncated
    /\ Len(diff_text) > MAX_DIFF_LENGTH
    /\ Contains(result, DIFF_TOO_LONG)
    /\ ~startswith(result, check_diff_length(diff_text))

---------------------------------------------------------------------------
(* The cache of tokenization handles: calls of the token estimator with    *)
(* any model names                                                         *)

\* the number of calls of one run
MaxCalls == 5

\* the model names of the calls: more names than the cache holds
CacheModels == Models \cup {"gpt-4", "gpt-4o"}

InitCache ==
    /\ pc = "estimate"
    /\ diff_text = <<>>
    /\ max_output_tokens = 1
    /\ model_name = "unknown-model"
    /\ provider = DEFAULT_PROVIDER
    /\ max_lines = MAX_COMPRESSED_LINES
    /\ compressed = <<>>
    /\ outcome = "pending"
    /\ result = <<>>
    /\ return_path = "none"
    /\ chars_per_token = 0
    /\ NoCaller
    /\ NoScorer
    /\ NoEstimates
    /\ NoMessage
    /\ NoMain

\* one call of the estimator for any model name
EstimateTokens ==
    /\ pc = "estimate"
    /\ Len(estimate_calls) < MaxCalls
    /\ \E m \in CacheModels :
        /\ model_name' = m
        /\ CountTokensCall(m)
    /\ UNCHANGED <<diff_text, max_output_tokens, provider, max_lines, pc>>
    /\ UNCHANGED <<compressed, outcome, result, return_path, chars_per_token>>
    /\ UNCHANGED Elsewhere

NextCache == EstimateTokens

SpecCache == InitCache /\ [][NextCache]_vars

\* the models that have a handle in the cache
Cached == Range(encoding_cache)

\* the position of the latest call for model m
LastUse(m) ==
    CHOOSE i \in 1..Len(estimate_calls) :
        /\ estimate_calls[i] = m
        /\ \A j \in (i + 1)..Len(estimate_calls) : estimate_calls[j] # m

\* the cached model whose latest call is the oldest
LeastRecentlyUsed ==
    CHOOSE m \in Cached : \A n \in Cached : LastUse(m) <= LastUse(n)

\* C22: every call of the estimator leaves at most CacheCapacity handles in
\* the cache, at most one per model name, the called model's among them; a
\* call for a cached model constructs no handle and evicts none; a call for
\* a model that is not cached constructs one handle, and when the cache is
\* full the handle evicted is the least recently used one and no other.
C22_BoundedLruCache ==
    [][estimate_calls' # estimate_calls =>
          LET m == estimate_calls'[Len(estimate_calls')]
              after == {encoding_cache'[i] : i \in 1..Len(encoding_cache')}
          IN  /\ Len(encoding_cache') <= CacheCapacity
              /\ Cardinality(after) = Len(encoding_cache')
              /\ m \in after
              /\ IF m \in Cached
                 THEN /\ handles_built' = handles_built
                      /\ after = Cached
                 ELSE /\ handles_built' = handles_built + 1
                      /\ after = (IF Cardinality(Cached) < CacheCapacity THEN Cached
                                  ELSE Cached \ {LeastRecentlyUsed}) \cup {m}]_vars

\* C22 witness: the cache is full, a handle was evicted and a call was
\* served from the cache, and the model of the first call is still cached
\* although a model called after it was evicted
C22_Witness ==
    /\ pc = "estimate"
    /\ Len(encoding_cache) = CacheCapacity
    /\ handles_built > CacheCapacity
    /\ handles_built < Len(estimate_calls)
    /\ estimate_calls[1] \in Cached
    /\ \E j \in 2..Len(estimate_calls) : estimate_calls[j] \notin Cached

---------------------------------------------------------------------------
(* commit_cleaner.py: clean_thinking_process(commit_msg)                   *)

\* None, which is no text
NONE == <<-1>>

\* "<think>" and "</think>"
THINK_OPEN == <<60, 116, 104, 105, 110, 107, 62>>
THINK_CLOSE == <<60, 47, 116, 104, 105, 110, 107, 62>>

\* re.IGNORECASE on a character of the two tags: the upper case letters, and
\* the letters that Unicode case folding makes equal to i and k
casefold(ch) ==
    IF ch \in 65..90 THEN ch + 32
    ELSE IF ch \in {304, 305} THEN 105
    ELSE IF ch = 8490 THEN 107
    ELSE ch

\* the tag matches at index i of s, whatever the case of its letters
TagAt(s, i, tag) ==
    /\ i >= 1
    /\ i + Len(tag) - 1 <= Len(s)
    /\ \A k \in 1..Len(tag) : casefold(s[i + k - 1]) = tag[k]

\* the indices after index o at which a closing tag stands
ClosesAfter(s, o) == {c \in (o + Len(THINK_OPEN))..Len(s) : TagAt(s, c, THINK_CLOSE)}

\* the indices from i on at which r"<think>.*?</think>" matches (re.DOTALL)
BlocksFrom(s, i) == {o \in i..Len(s) : TagAt(s, o, THINK_OPEN) /\ ClosesAfter(s, o) # {}}

Least(S) == CHOOSE x \in S : \A y \in S : x <= y

RECURSIVE sub_think(_, _)
\* re.sub(r"<think>.*?</think>", "", s) from index i on: one pass from left
\* to right, each match ending at the nearest closing tag, the search going
\* on behind the match
sub_think(s, i) ==
    IF BlocksFrom(s, i) = {} THEN SubSeq(s, i, Len(s))
    ELSE LET o == Least(BlocksFrom(s, i))
             c == Least(ClosesAfter(s, o))
         IN  SubSeq(s, i, o - 1) \o sub_think(s, c + Len(THINK_CLOSE))

\* lines 20-22
remove_think_blocks(s) == strip(sub_think(s, 1))

\* \w on the characters the messages are drawn from: ASCII letters, digits
\* and "_", the letters of Latin-1 and the CJK ideographs
is_word(ch) ==
    \/ ch \in (48..57) \cup (65..90) \cup {95} \cup (97..122)
    \/ ch \in (192..214) \cup (216..246) \cup (248..255)
    \/ ch \in CJK_FIRST..CJK_LAST

\* [^\"'•\*\-\w\n\r]
is_prefix_char(ch) == ch \notin {34, 39, 8226, 42, 45, 10, 13} /\ ~is_word(ch)

\* \s
is_space(ch) == ch \in Whitespace

\* [a-z0-9_]
is_type_char(ch) == ch \in (97..122) \cup (48..57) \cup {95}

\* [\w\-\./]
is_scope_char(ch) == is_word(ch) \/ ch \in {45, 46, 47}

\* the character is of the class of that name
in_class(class, ch) ==
    CASE class = "space" -> is_space(ch)
      [] class = "prefix" -> is_prefix_char(ch)
      [] class = "type" -> is_type_char(ch)
      [] class = "scope" -> is_scope_char(ch)

\* the indices at which a run of characters of one class that starts at
\* index p can end: X* gives ZeroOrMore, X+ gives OneOrMore
ZeroOrMore(s, p, class) ==
    {q \in p..(Len(s) + 1) : \A k \in p..(q - 1) : in_class(class, s[k])}
OneOrMore(s, p, class) == ZeroOrMore(s, p, class) \ {p}

\* the character at index j of s is ch
CharAt(s, j, ch) == j >= 1 /\ j <= Len(s) /\ s[j] = ch

\* ^\s*(?:[^\"'•\*\-\w\n\r]+\s+)? from index i: the indices at which the
\* type can start
after_prefix(s, i) ==
    LET spaces == ZeroOrMore(s, i, "space")
    IN  spaces \cup
        UNION {UNION {OneOrMore(s, k, "space") : k \in OneOrMore(s, j, "prefix")} :
                  j \in spaces}

\* ([a-z0-9_]+)(\([\w\-\./]+\))?(!)?: .+ from one of the indices in from:
\* some way of reading type, scope, "!" and ": " leaves a character of the
\* line for the description
header_follows(s, from) ==
    LET types == UNION {OneOrMore(s, j, "type") : j \in from}
        scopes == types \cup
                  UNION {{k + 1 : k \in {q \in OneOrMore(s, j + 1, "scope") : CharAt(s, q, 41)}} :
                            j \in {t \in types : CharAt(s, t, 40)}}
        bangs == scopes \cup {j + 1 : j \in {b \in scopes : CharAt(s, b, 33)}}
        colons == {j + 2 : j \in {b \in bangs : CharAt(s, b, 58) /\ CharAt(s, b + 1, 32)}}
    IN  \E j \in colons : j <= Len(s) /\ s[j] # NL

\* convention_pattern matches at index i of s (lines 35-38): "^" holds at
\* the start of the text and behind every "\n" (re.MULTILINE)
convention_at(s, i) ==
    /\ i = 1 \/ CharAt(s, i - 1, NL)
    /\ header_follows(s, after_prefix(s, i))

\* convention_pattern.search(s).start() + 1, or 0 when there is no match
convention_search(s) ==
    LET found == {i \in 1..Len(s) : convention_at(s, i)}
    IN  IF found = {} THEN 0 ELSE Least(found)

\* lines 16-44
clean_thinking_process(msg) ==
    IF msg = NONE \/ msg = <<>> THEN msg
    ELSE LET text == remove_think_blocks(msg)
             start == convention_search(text)
         IN  IF start # 0 THEN strip(SubSeq(text, start, Len(text))) ELSE strip(text)

---------------------------------------------------------------------------
(* Calls of clean_thinking_process: the message, and then its own result   *)

\* the number of pieces a message is put together from
MaxPieces == 4

\* "<thi" and "nk>": the two halves of an opening tag
HALF_OPEN == <<60, 116, 104, 105>>
HALF_REST == <<110, 107, 62>>
\* "<Think>x\ny</THINK>": a block of two lines with tags in mixed case
BLOCK == <<60, 84, 104, 105, 110, 107, 62, 120, 10, 121, 60, 47, 84, 72, 73, 78, 75, 62>>
\* "x"
TEXT == <<120>>
\* "feat: a"
HEADER == <<102, 101, 97, 116, 58, 32, 97>>
\* "fix(core)!: b"
HEADER_SCOPED == <<102, 105, 120, 40, 99, 111, 114, 101, 41, 33, 58, 32, 98>>
\* "🔨 ": an emoji prefix
EMOJI == <<128296, 32>>
\* "```\n": a line of punctuation
FENCE == <<96, 96, 96, 10>>
\* "Note\n": a line of analysis
NOTE == <<78, 111, 116, 101, 10>>

\* the pieces of messages with whole, half and nested tags
ThinkPieces == {THINK_OPEN, THINK_CLOSE, HALF_OPEN, HALF_REST, BLOCK, TEXT, <<NL>>, HEADER}

\* the pieces of messages with analysis, headers and text around them
HeaderPieces == {NOTE, FENCE, EMOJI, HEADER, HEADER_SCOPED, BLOCK, <<NL>>, <<SPACE>>}

RECURSIVE Concat(_, _)
Concat(ps, i) == IF i > Len(ps) THEN <<>> ELSE ps[i] \o Concat(ps, i + 1)

\* the messages: None, the empty message, and up to MaxPieces pieces of one
\* of the two kinds in any order
CleanerMessages ==
    {NONE} \cup {Concat(ps, 1) : ps \in BoundedSeqs(ThinkPieces, MaxPieces)}
           \cup {Concat(ps, 1) : ps \in BoundedSeqs(HeaderPieces, MaxPieces)}

InitClean ==
    /\ commit_msg \in CleanerMessages
    /\ cleaned = <<>>
    /\ cleaned_again = <<>>
    /\ pc = "clean"
    /\ diff_text = <<>>
    /\ max_output_tokens = 1
    /\ model_name = "unknown-model"
    /\ provider = DEFAULT_PROVIDER
    /\ max_lines = MAX_COMPRESSED_LINES
    /\ compressed = <<>>
    /\ outcome = "pending"
    /\ result = <<>>
    /\ return_path = "none"
    /\ chars_per_token = 0
    /\ NoCaller
    /\ NoScorer
    /\ NoEstimates
    /\ NoMain

\* what a call of the cleaner leaves alone
CleanerFrame ==
    /\ UNCHANGED <<compressed, outcome, result, return_path, chars_per_token>>
    /\ UNCHANGED <<config, file_path, added_lines, removed_lines, score>>
    /\ UNCHANGED Inputs
    /\ UNCHANGED Estimator
    /\ UNCHANGED Main

\* clean_thinking_process(commit_msg)
CleanThinkingProcess ==
    /\ pc = "clean"
    /\ cleaned' = clean_thinking_process(commit_msg)
    /\ pc' = "cleaned"
    /\ UNCHANGED <<commit_msg, cleaned_again>>
    /\ CleanerFrame

\* clean_thinking_process(cleaned): the function applied to its own result
CleanAgain ==
    /\ pc = "cleaned"
    /\ cleaned_again' = clean_thinking_process(cleaned)
    /\ pc' = "done"
    /\ UNCHANGED <<commit_msg, cleaned>>
    /\ CleanerFrame

NextClean == CleanThinkingProcess \/ CleanAgain

SpecClean == InitClean /\ [][NextClean]_vars

---------------------------------------------------------------------------
(* Properties of clean_thinking_process                                    *)

\* the message has been cleaned
Cleaned == pc \in {"cleaned", "done"}

\* the message is a text: neither None nor empty
IsText(msg) == msg # NONE /\ msg # <<>>

\* the text holds a complete think block: an opening tag and, behind it, a
\* closing tag, in any letter case
HasThinkBlock(s) == \E o \in 1..Len(s) : TagAt(s, o, THINK_OPEN) /\ ClosesAfter(s, o) # {}

\* the indices at which the lines of s start
LineStarts(s) == {i \in 1..Len(s) : i = 1 \/ s[i - 1] = NL}

\* the line of s that starts at index i, without its line end
LineAt(s, i) == SubSeq(s, i, FirstIndexIn(s, i, {NL}) - 1)

\* the line has the form of a conventional-commit header: optional emoji
\* prefix, type, optional (scope), optional "!", ": " and a description
IsHeaderLine(line) == header_follows(line, after_prefix(line, 1))

\* the index at which the first header line of s starts, or 0
FirstHeaderLine(s) ==
    LET headers == {i \in LineStarts(s) : IsHeaderLine(LineAt(s, i))}
    IN  IF headers = {} THEN 0 ELSE Least(headers)

\* C24 as claimed: with the think blocks removed, the result is the message
\* from its first header line on, all text before that line discarded and
\* all text after it preserved; a message without a header line is returned
\* whole; in both cases without leading and trailing whitespace; an empty
\* message and None are returned as they are.
C24_SuffixFromFirstHeaderLine ==
    Cleaned =>
        IF ~IsText(commit_msg) THEN cleaned = commit_msg
        ELSE LET text == remove_think_blocks(commit_msg)
                 first == FirstHeaderLine(text)
             IN  cleaned = IF first = 0 THEN text ELSE strip(SubSeq(text, first, Len(text)))

\* C25 as claimed: the result of clean_thinking_process holds no complete
\* think block, whatever the message.
C25_NoThinkBlockLeft ==
    (Cleaned /\ IsText(commit_msg)) => ~HasThinkBlock(cleaned)

\* C30 as claimed: cleaning the result of clean_thinking_process again gives
\* that result.
C30_Idempotent ==
    pc = "done" => cleaned_again = cleaned

---------------------------------------------------------------------------
(* One whole run of cli.main (cli.py lines 36-77).  The language model,    *)
(* the user at the confirmation prompt and git are the environment: what   *)
(* they do is chosen at the step that meets them.  commity/llm and         *)
(* commity/core are not part of the sources at hand: client.generate       *)
(* returns the model's text response or raises, as the specification says, *)
(* and generate_prompt builds the prompt from the budgeted diff.           *)

\* summary_and_tokens_checker(diff_text, max_output_tokens, model_name,
\* provider) as one call: the value it returns (lines 100-136)
summary_and_tokens_checker(d, b, m, p) ==
    IF fits_budget(count_tokens(d, m, p), b) THEN d
    ELSE LET prompt == compressed_prompt(d)
             c == chars_to_remove(prompt, b, m, p)
         IN  IF fits_budget(count_tokens(prompt, m, p), b) THEN prompt
             ELSE IF can_truncate(Len(prompt), c) THEN truncated_prompt(prompt, c)
             ELSE prompt

\* the calls of count_tokens that one call of the budget controller makes
estimates_of_check(d, b, m, p) ==
    IF fits_budget(count_tokens(d, m, p), b) THEN <<m>> ELSE <<m, m>>

\* plausible defect: a run without staged changes goes on
no_staged_changes_ignored(d) == FALSE

\* "if not diff" (cli.py line 47)
no_staged_changes(d) == d = <<>>

\* plausible defect: the confirmation prompt defaults to "y"
prompt_answer_default_yes(key) == IF key = "" THEN "y" ELSE key

\* Prompt.ask(..., choices=["y", "n"], default="n") (cli.py line 65): the
\* answer typed, or the default when the user only presses return
prompt_answer(key) == IF key = "" THEN "n" ELSE key

\* the errors client.generate raises: the error of the language model
\* clients and any other error of the request
GenerateErrors == {"LLMGenerationError", "Exception"}

\* plausible defect: only the error of the language model clients is caught
caught_by_main_llm_only(error) == error = "LLMGenerationError"

\* "except Exception as e" (cli.py line 74) catches the error: every error
\* of the model is an Exception
caught_by_main(error) == error \in GenerateErrors \cup {"FileNotFoundError", "CalledProcessError"}

\* what the language model answers: a commit message, one with analysis
\* before the header, one with a think block, the empty text, nothing
LlmResponses == {HEADER, NOTE \o HEADER, BLOCK \o HEADER, <<>>, NONE}

\* what the user types at the confirmation prompt: "" is the return key
PromptKeys == {"y", "n", ""}

\* how "git commit" ends: exit status 0, a non-zero exit status
\* (CalledProcessError), or git cannot be started
GitResults == {"exit_0", "CalledProcessError", "FileNotFoundError"}

\* the staged diffs: none, a small one and one that is over every budget
StagedDiffs ==
    {<<>>, DiffOf(<<HeaderLine(PATH_SHORT), ADDED>>), DiffOf(<<HeaderLine(PATH_SHORT), ADDED_BULK>>)}

\* the arguments are parsed and the configuration is resolved (lines 36-37)
InitMain ==
    /\ args \in [show_config : BOOLEAN, confirm : {"y", "n"}]
    /\ config \in [provider : ConfigProviders, model : Models, max_tokens : {1, MaxBudget}]
    /\ diff_text \in StagedDiffs
    /\ pc = "start"
    /\ response = <<>>
    /\ commit_msg = <<>>
    /\ confirm_input = ""
    /\ events = <<>>
    /\ displayed = <<>>
    /\ committed = <<>>
    /\ cleaned = <<>>
    /\ cleaned_again = <<>>
    /\ max_output_tokens = 0
    /\ model_name = ""
    /\ provider = ""
    /\ max_lines = MAX_COMPRESSED_LINES
    /\ compressed = <<>>
    /\ outcome = "pending"
    /\ result = <<>>
    /\ return_path = "none"
    /\ chars_per_token = 0
    /\ NoScorer
    /\ NoEstimates

\* what main itself leaves alone at every step
MainFrame ==
    /\ UNCHANGED <<args, config, diff_text, max_lines>>
    /\ UNCHANGED <<compressed, return_path, chars_per_token>>
    /\ UNCHANGED <<file_path, added_lines, removed_lines, score>>
    /\ UNCHANGED <<cleaned, cleaned_again>>

\* main returns
EndMain(how) ==
    /\ pc' = "done"
    /\ outcome' = how

\* lines 39-42: --show-config prints the configuration and returns
ShowConfig ==
    /\ pc = "start"
    /\ args.show_config
    /\ events' = Append(events, "show_config")
    /\ EndMain("returned")
    /\ UNCHANGED <<max_output_tokens, model_name, provider, result>>
    /\ UNCHANGED <<response, commit_msg, confirm_input, displayed, committed>>
    /\ UNCHANGED Estimator
    /\ MainFrame

\* lines 44-49: the client is made and the staged diff is read; without
\* staged changes main warns and returns
GetGitDiff ==
    /\ pc = "start"
    /\ ~args.show_config
    /\ IF no_staged_changes(diff_text)
       THEN /\ events' = events \o <<"get_git_diff", "no_changes_warning">>
            /\ EndMain("returned")
       ELSE /\ events' = Append(events, "get_git_diff")
            /\ pc' = "budget"
            /\ UNCHANGED outcome
    /\ UNCHANGED <<max_output_tokens, model_name, provider, result>>
    /\ UNCHANGED <<response, commit_msg, confirm_input, displayed, committed>>
    /\ UNCHANGED Estimator
    /\ MainFrame

\* line 51: diff = summary_and_tokens_checker(diff, config.max_tokens,
\* config.model); result is the value of diff from here on
BudgetDiff ==
    /\ pc = "budget"
    /\ max_output_tokens' = config.max_tokens
    /\ model_name' = config.model
    /\ provider' = DEFAULT_PROVIDER
    /\ result' = summary_and_tokens_checker(diff_text, config.max_tokens, config.model, DEFAULT_PROVIDER)
    /\ encoding_cache' = lru_cache_after(encoding_cache, config.model)
    /\ estimate_calls' = estimate_calls \o
           estimates_of_check(diff_text, config.max_tokens, config.model, DEFAULT_PROVIDER)
    /\ handles_built' = handles_built + (IF builds_handle(encoding_cache, config.model) THEN 1 ELSE 0)
    /\ events' = Append(events, "summary_and_tokens_checker")
    /\ pc' = "prompt"
    /\ UNCHANGED outcome
    /\ UNCHANGED <<response, commit_msg, confirm_input, displayed, committed>>
    /\ MainFrame

\* line 54: prompt = generate_prompt(diff, ...)
GeneratePrompt ==
    /\ pc = "prompt"
    /\ events' = Append(events, "generate_prompt")
    /\ pc' = "generate"
    /\ UNCHANGED <<max_output_tokens, model_name, provider, result, outcome>>
    /\ UNCHANGED <<response, commit_msg, confirm_input, displayed, committed>>
    /\ UNCHANGED Estimator
    /\ MainFrame

\* lines 55-58 and 72-77: commit_msg = client.generate(prompt).  An error is
\* caught by line 74 and shown in a panel; an empty answer is reported as a
\* failure to generate; main returns in both cases.
Generate ==
    /\ pc = "generate"
    /\ \/ \E error \in GenerateErrors :
            /\ response' = NONE
            /\ UNCHANGED commit_msg
            /\ IF caught_by_main(error)
               THEN /\ events' = events \o <<"generate", error, "error_panel">>
                    /\ EndMain("returned")
               ELSE /\ events' = events \o <<"generate", error>>
                    /\ EndMain("raised")
       \/ \E answer \in LlmResponses :
            /\ response' = answer
            /\ commit_msg' = answer
            /\ IF answer = NONE \/ answer = <<>>
               THEN /\ events' = events \o <<"generate", "failed_to_generate">>
                    /\ EndMain("returned")
               ELSE /\ events' = Append(events, "generate")
                    /\ pc' = "display"
                    /\ UNCHANGED outcome
    /\ UNCHANGED <<max_output_tokens, model_name, provider, result>>
    /\ UNCHANGED <<confirm_input, displayed, committed>>
    /\ UNCHANGED Estimator
    /\ MainFrame

\* lines 59-63: the message is shown between two rules; without
\* --confirm y main returns
DisplayMessage ==
    /\ pc = "display"
    /\ displayed' = commit_msg
    /\ events' = Append(events, "display")
    /\ IF args.confirm = "y"
       THEN pc' = "ask" /\ UNCHANGED outcome
       ELSE EndMain("returned")
    /\ UNCHANGED <<max_output_tokens, model_name, provider, result>>
    /\ UNCHANGED <<response, commit_msg, confirm_input, committed>>
    /\ UNCHANGED Estimator
    /\ MainFrame

\* lines 64-66: the user is asked and answers
AskConfirmation ==
    /\ pc = "ask"
    /\ \E key \in PromptKeys :
        /\ confirm_input' = prompt_answer(key)
        /\ events' = events \o <<"ask", IF key = "" THEN "answer_default" ELSE "answer_typed">>
        /\ IF prompt_answer(key) = "y"
           THEN pc' = "commit" /\ UNCHANGED outcome
           ELSE EndMain("returned")
    /\ UNCHANGED <<max_output_tokens, model_name, provider, result>>
    /\ UNCHANGED <<response, commit_msg, displayed, committed>>
    /\ UNCHANGED Estimator
    /\ MainFrame

\* lines 67-71 and 74-77: git commit -m commit_msg.  Success is reported;
\* CalledProcessError is caught by line 70 and reported as a failure; any
\* other error is caught by line 74 and shown in the error panel.
GitCommit ==
    /\ pc = "commit"
    /\ committed' = commit_msg
    /\ \E run \in GitResults :
        IF run = "exit_0"
        THEN /\ events' = events \o <<"git_commit", run, "commit_success">>
             /\ EndMain("returned")
        ELSE IF run = "CalledProcessError"
        THEN /\ events' = events \o <<"git_commit", run, "commit_failed">>
             /\ EndMain("returned")
        ELSE IF caught_by_main(run)
        THEN /\ events' = events \o <<"git_commit", run, "error_panel">>
             /\ EndMain("returned")
        ELSE /\ events' = events \o <<"git_commit", run>>
             /\ EndMain("raised")
    /\ UNCHANGED <<max_output_tokens, model_name, provider, result>>
    /\ UNCHANGED <<response, commit_msg, confirm_input, displayed>>
    /\ UNCHANGED Estimator
    /\ MainFrame

NextMain ==
    \/ ShowConfig
    \/ GetGitDiff
    \/ BudgetDiff
    \/ GeneratePrompt
    \/ Generate
    \/ DisplayMessage
    \/ AskConfirmation
    \/ GitCommit

SpecMain == InitMain /\ [][NextMain]_vars

---------------------------------------------------------------------------
(* Properties of a run of cli.main                                         *)

\* the positions of an event in the run
Positions(e) == {i \in 1..Len(events) : events[i] = e}
Happened(e) == Positions(e) # {}

\* event a happened, and event b happened after it
InOrder(a, b) == \E i \in Positions(a), j \in Positions(b) : i < j

\* C23 as claimed: the message shown for review and the message passed to
\* git commit -m are the model's response after clean_thinking_process, so
\* that neither holds a think block or the analysis before the header.
C23_CleanedMessageShownAndCommitted ==
    /\ Happened("display") => displayed = clean_thinking_process(response)
    /\ Happened("git_commit") => committed = clean_thinking_process(response)

\* C26: git commit is executed at most once, and only after client.generate
\* returned a non-empty message, then the message was displayed, then the
\* user was asked and answered "y", with --confirm y; with --confirm n,
\* with the default answer, with an answer other than "y", and with an
\* empty or failed generation, no commit is executed.
C26_CommitOnlyAfterConfirmation ==
    /\ Cardinality(Positions("git_commit")) <= 1
    /\ Happened("git_commit") =>
           /\ IsText(response) /\ commit_msg = response /\ committed = commit_msg
           /\ InOrder("generate", "display")
           /\ InOrder("display", "ask")
           /\ InOrder("ask", "git_commit")
           /\ args.confirm = "y"
           /\ confirm_input = "y"
           /\ Happened("answer_typed")
    /\ (\/ args.confirm = "n"
        \/ Happened("answer_default")
        \/ (Happened("ask") /\ confirm_input # "y")
        \/ Happened("failed_to_generate")
        \/ \E error \in GenerateErrors : Happened(error)) => ~Happened("git_commit")

\* C26 witness: a run that committed after the user typed "y"
C26_Witness ==
    /\ pc = "done"
    /\ Happened("commit_success")
    /\ confirm_input = "y"

\* C27: client.generate is called at most once, and only after get_git_diff
\* returned a non-empty diff, then summary_and_tokens_checker budgeted it,
\* then generate_prompt built the prompt; a run with --show-config only
\* prints the configuration, and a run without staged changes only warns:
\* neither makes a request to the language model or a commit.
C27_GenerateOnlyAfterPrompt ==
    /\ Cardinality(Positions("generate")) <= 1
    /\ Happened("generate") =>
           /\ diff_text # <<>>
           /\ result = summary_and_tokens_checker(diff_text, config.max_tokens, config.model, DEFAULT_PROVIDER)
           /\ InOrder("get_git_diff", "summary_and_tokens_checker")
           /\ InOrder("summary_and_tokens_checker", "generate_prompt")
           /\ InOrder("generate_prompt", "generate")
    /\ (pc = "done" /\ args.show_config) => events = <<"show_config">>
    /\ (pc = "done" /\ ~args.show_config /\ diff_text = <<>>) =>
           events = <<"get_git_diff", "no_changes_warning">>
    /\ args.show_config => pc \in {"start", "done"}
    /\ (~args.show_config /\ diff_text = <<>>) => pc \in {"start", "done"}

\* C27 witness: a run went as far as the request to the language model
C27_Witness ==
    /\ Happened("generate")
    /\ Len(result) > 0
    /\ result # diff_text

\* C28: once the prompt has been built main ends by returning: an error of
\* client.generate is reported in the error panel and no commit is executed
\* in that run; a git commit that fails with CalledProcessError is reported
\* as a failure and never as a success.
C28_ErrorsCaughtAndReported ==
    /\ Happened("generate_prompt") => outcome # "raised"
    /\ (pc = "done" /\ Happened("generate_prompt")) => outcome = "returned"
    /\ \A error \in GenerateErrors :
           Happened(error) =>
               /\ pc = "done"
               /\ events[Len(events)] = "error_panel"
               /\ ~Happened("git_commit")
               /\ committed = <<>>
    /\ Happened("CalledProcessError") =>
           /\ pc = "done"
           /\ events[Len(events)] = "commit_failed"
           /\ ~Happened("commit_success")

\* C28 witness: a run whose request to the language model failed, and a run
\* whose git commit failed, have both ended
C28_Witness ==
    /\ pc = "done"
    /\ outcome = "returned"
    /\ Happened("Exception") \/ Happened("CalledProcessError")

====
